---- MODULE Spec2Model ----
(***************************************************************************)
(* Atmel SAM3/SAM4/SAMx7 target driver of the Black Magic Debug project    *)
(* (src/target/sam3x.c): chip identification, flash/RAM region             *)
(* registration, the EEFC command sequencer, erase, write and the GPNVM    *)
(* monitor commands.                                                       *)
(*                                                                         *)
(* A 32-bit identification register is a pair <<high 16 bits, low 16       *)
(* bits>>, because bit 31 (CHIPID_CIDR_EXT) does not fit a model integer.  *)
(* Addresses, command words and status values stay below 2^31 and are      *)
(* plain integers.  A char is its character code.                          *)
(***************************************************************************)
EXTENDS Integers, Sequences, FiniteSets, TLC

VARIABLES
    mem,            \* target memory: the identification registers
    driver,         \* t->driver
    flash,          \* the target's flash regions, in registration order
    ram,            \* the target's RAM regions, in registration order
    commands,       \* the command tables registered on the target
    target_storage, \* t->target_storage
    probe_result,   \* what the last probe returned
    last_probe,     \* which probe ran last
    nprobes,        \* probes run on this target so far
    flash_size,     \* flash size decoded by the last probe that recognized the device
    alloc_failed,   \* callocs that returned NULL in the last probe
    op,             \* the call in progress or last returned
    pc,             \* position inside that call
    f,              \* index of the flash region the call operates on
    addr,           \* erase: addr, write: dest
    len,            \* erase: remaining length, write: len
    len_in,         \* the length the caller passed
    chunk,          \* local variable chunk of erase and write
    base,           \* EEFC base the call uses
    ret,            \* int returned by erase / write
    bret,           \* bool returned by a monitor command
    argc,           \* argument count of the monitor command
    argv,           \* what atol returns for argv[1] and argv[2] of gpnvm_set
    cpc,            \* position inside sam3x_flash_cmd
    cmd,            \* sam3x_flash_cmd parameter cmd
    arg,            \* sam3x_flash_cmd parameter arg (uint16_t)
    arg_in,         \* the value the caller computed for arg, before conversion
    sr,             \* last value read from EEFC_FSR
    terr,           \* last answer of target_check_error in this sequencer call
    cmd_result,     \* what sam3x_flash_cmd returned
    hw,             \* register writes, bulk writes and FRR reads of this call
    cmd_results,    \* results of the sequencer calls of this call
    console,        \* tc_printf output of this call
    last,           \* summary of the previous call
    link_error      \* the debug link's pending error, cleared when queried

targetVars == <<driver, flash, ram, commands, target_storage>>
probeVars == <<probe_result, last_probe, nprobes, flash_size, alloc_failed>>
callVars == <<op, pc, f, addr, len, len_in, chunk, base, ret, bret, argc, argv>>
cmdVars == <<cpc, cmd, arg, arg_in, sr, terr, cmd_result>>
histVars == <<hw, cmd_results, console, last>>
vars == <<mem, targetVars, probeVars, callVars, cmdVars, histVars, link_error>>

(***************************************************************************)
(* Bounds of the model.                                                    *)
(***************************************************************************)
MaxProbes == 2
MaxBlocks == 3

(***************************************************************************)
(* Integer arithmetic of the C types.                                      *)
(***************************************************************************)
RECURSIVE BitAnd(_, _)
BitAnd(a, b) ==
    IF a = 0 \/ b = 0 THEN 0
    ELSE (a % 2) * (b % 2) + 2 * BitAnd(a \div 2, b \div 2)

RECURSIVE BitOr(_, _)
BitOr(a, b) ==
    IF a = 0 THEN b
    ELSE IF b = 0 THEN a
    ELSE (IF a % 2 = 1 \/ b % 2 = 1 THEN 1 ELSE 0) + 2 * BitOr(a \div 2, b \div 2)

\* v << n as a 32-bit word <<high half, low half>>
Shl32(v, n) ==
    IF n >= 16 THEN <<(v * 2^(n - 16)) % 65536, 0>>
    ELSE <<((v * 2^n) \div 65536) % 65536, (v * 2^n) % 65536>>

And32(a, b) == <<BitAnd(a[1], b[1]), BitAnd(a[2], b[2])>>
Or32(a, b) == <<BitOr(a[1], b[1]), BitOr(a[2], b[2])>>
Word0 == <<0, 0>>

\* mutant: the parameter declared 32 bits wide
ToUint16_wide(v) == v

ToUint16(v) == v % 65536
\* mutant: arg declared as a signed char
ToInt16_char(v) == IF v % 256 >= 128 THEN (v % 256) - 256 ELSE v % 256

ToInt16(v) == IF v % 65536 >= 32768 THEN (v % 65536) - 65536 ELSE v % 65536

(***************************************************************************)
(* Register map and field definitions (sam3x.c lines 45-148).              *)
(***************************************************************************)
SAMX7X_EEFC_BASE == \h400E0C00
SAM3N_EEFC_BASE == \h400E0A00
SAM3X_EEFC_BASE(x) == \h400E0A00 + x * \h200
SAM3U_EEFC_BASE(x) == \h400E0800 + x * \h200
SAM4S_EEFC_BASE(x) == \h400E0A00 + x * \h200
EEFC_FCR(b) == b + 4
EEFC_FSR(b) == b + 8
EEFC_FRR(b) == b + 12

EEFC_FCR_FKEY == \h5A * 2^24
EEFC_FCR_FCMD_WP == 1
EEFC_FCR_FCMD_EWP == 3
EEFC_FCR_FCMD_EPA == 7
EEFC_FCR_FCMD_SGPB == 11
EEFC_FCR_FCMD_CGPB == 12
EEFC_FCR_FCMD_GGPB == 13

EEFC_FSR_FRDY == 1
EEFC_FSR_FCMDE == 2
EEFC_FSR_FLOCKE == 4
EEFC_FSR_ERROR == BitOr(EEFC_FSR_FCMDE, EEFC_FSR_FLOCKE)

SAM3X_CHIPID_CIDR == \h400E0940
SAM34NSU_CHIPID_CIDR == \h400E0740
SAMX_CHIPID_EXID == SAM3X_CHIPID_CIDR + 4

CHIPID_CIDR_VERSION_MASK == Shl32(31, 0)
CHIPID_CIDR_EPROC_OFFSET == 5
CHIPID_CIDR_EPROC_MASK == Shl32(7, CHIPID_CIDR_EPROC_OFFSET)
CHIPID_CIDR_EPROC_CM3 == Shl32(3, CHIPID_CIDR_EPROC_OFFSET)
CHIPID_CIDR_EPROC_CM4 == Shl32(7, CHIPID_CIDR_EPROC_OFFSET)

CHIPID_CIDR_NVPSIZ_OFFSET == 8
\* mutant: the mask reaching past the 4-bit field into the SRAM size field
CHIPID_CIDR_NVPSIZ_MASK_wide == Shl32(271, CHIPID_CIDR_NVPSIZ_OFFSET)

CHIPID_CIDR_NVPSIZ_MASK == Shl32(15, CHIPID_CIDR_NVPSIZ_OFFSET)
CHIPID_CIDR_NVPSIZ_8K == Shl32(1, CHIPID_CIDR_NVPSIZ_OFFSET)
CHIPID_CIDR_NVPSIZ_16K == Shl32(2, CHIPID_CIDR_NVPSIZ_OFFSET)
CHIPID_CIDR_NVPSIZ_32K == Shl32(3, CHIPID_CIDR_NVPSIZ_OFFSET)
CHIPID_CIDR_NVPSIZ_64K == Shl32(5, CHIPID_CIDR_NVPSIZ_OFFSET)
CHIPID_CIDR_NVPSIZ_128K == Shl32(7, CHIPID_CIDR_NVPSIZ_OFFSET)
CHIPID_CIDR_NVPSIZ_256K == Shl32(9, CHIPID_CIDR_NVPSIZ_OFFSET)
CHIPID_CIDR_NVPSIZ_512K == Shl32(10, CHIPID_CIDR_NVPSIZ_OFFSET)
CHIPID_CIDR_NVPSIZ_1024K == Shl32(12, CHIPID_CIDR_NVPSIZ_OFFSET)
CHIPID_CIDR_NVPSIZ_2048K == Shl32(14, CHIPID_CIDR_NVPSIZ_OFFSET)

CHIPID_CIDR_SRAMSIZ_OFFSET == 16
CHIPID_CIDR_SRAMSIZ_MASK == Shl32(15, CHIPID_CIDR_SRAMSIZ_OFFSET)
CHIPID_CIDR_SRAMSIZ_384K == Shl32(2, CHIPID_CIDR_SRAMSIZ_OFFSET)
CHIPID_CIDR_SRAMSIZ_256K == Shl32(13, CHIPID_CIDR_SRAMSIZ_OFFSET)

CHIPID_CIDR_ARCH_OFFSET == 20
CHIPID_CIDR_ARCH_MASK == Shl32(255, CHIPID_CIDR_ARCH_OFFSET)
CHIPID_CIDR_ARCH_SAME70 == Shl32(16, CHIPID_CIDR_ARCH_OFFSET)
CHIPID_CIDR_ARCH_SAMS70 == Shl32(17, CHIPID_CIDR_ARCH_OFFSET)
CHIPID_CIDR_ARCH_SAMV71 == Shl32(18, CHIPID_CIDR_ARCH_OFFSET)
CHIPID_CIDR_ARCH_SAMV70 == Shl32(19, CHIPID_CIDR_ARCH_OFFSET)
CHIPID_CIDR_ARCH_SAM3UxC == Shl32(128, CHIPID_CIDR_ARCH_OFFSET)
CHIPID_CIDR_ARCH_SAM3UxE == Shl32(129, CHIPID_CIDR_ARCH_OFFSET)
CHIPID_CIDR_ARCH_SAM3XxC == Shl32(132, CHIPID_CIDR_ARCH_OFFSET)
CHIPID_CIDR_ARCH_SAM3XxE == Shl32(133, CHIPID_CIDR_ARCH_OFFSET)
CHIPID_CIDR_ARCH_SAM3XxG == Shl32(134, CHIPID_CIDR_ARCH_OFFSET)
CHIPID_CIDR_ARCH_SAM3NxA == Shl32(147, CHIPID_CIDR_ARCH_OFFSET)
CHIPID_CIDR_ARCH_SAM3NxB == Shl32(148, CHIPID_CIDR_ARCH_OFFSET)
CHIPID_CIDR_ARCH_SAM3NxC == Shl32(149, CHIPID_CIDR_ARCH_OFFSET)
CHIPID_CIDR_ARCH_SAM3SxA == Shl32(136, CHIPID_CIDR_ARCH_OFFSET)
CHIPID_CIDR_ARCH_SAM3SxB == Shl32(137, CHIPID_CIDR_ARCH_OFFSET)
CHIPID_CIDR_ARCH_SAM3SxC == Shl32(138, CHIPID_CIDR_ARCH_OFFSET)
CHIPID_CIDR_ARCH_SAM4SxA == Shl32(136, CHIPID_CIDR_ARCH_OFFSET)
CHIPID_CIDR_ARCH_SAM4SxB == Shl32(137, CHIPID_CIDR_ARCH_OFFSET)
CHIPID_CIDR_ARCH_SAM4SxC == Shl32(138, CHIPID_CIDR_ARCH_OFFSET)
CHIPID_CIDR_ARCH_SAM4SDB == Shl32(153, CHIPID_CIDR_ARCH_OFFSET)
CHIPID_CIDR_ARCH_SAM4SDC == Shl32(154, CHIPID_CIDR_ARCH_OFFSET)

CHIPID_CIDR_EXT == Shl32(1, 31)

CHIPID_EXID_SAMX7X_PINS_MASK == Shl32(3, 0)
CHIPID_EXID_SAMX7X_PINS_Q == Shl32(2, 0)
CHIPID_EXID_SAMX7X_PINS_N == Shl32(1, 0)
CHIPID_EXID_SAMX7X_PINS_J == Shl32(0, 0)

SAM3_PAGE_SIZE == 256
SAM4_PAGE_SIZE == 512

\* mutant: the first bank not clamped to 512K
MIN_unclamped(x, y) == x

MIN(x, y) == IF x < y THEN x ELSE y

(***************************************************************************)
(* The target interface the driver calls (target.c, not part of the        *)
(* driver): registration appends, a read returns the register's value.     *)
(***************************************************************************)
target_mem_read32(a) == mem[a]
target_add_flash(fl, region) == Append(fl, region)
target_add_ram(rl, start, length) == Append(rl, [start |-> start, length |-> length])
target_add_commands(cl, name) == Append(cl, name)

\* an access over the debug link: the link may raise its error during it,
\* and the error stays pending until target_check_error reads it
LinkAccess == \E e \in BOOLEAN : link_error' = (link_error \/ e)

\* target_check_error answers whether an error is pending and clears it
target_check_error(pending) == pending

\* what a flash controller command that completes without error does to a
\* page: erase pages erases it, erase-and-write erases and programs it,
\* write programs it, which gives the buffer's content only on an erased
\* page
CommandEffect(opcode, page) ==
    CASE opcode = EEFC_FCR_FCMD_EPA -> "erased"
      [] opcode = EEFC_FCR_FCMD_EWP -> "programmed"
      [] opcode = EEFC_FCR_FCMD_WP ->
            (IF page = "erased" THEN "programmed" ELSE "corrupt")
      [] OTHER -> page

(***************************************************************************)
(* Region construction.  ok is whether calloc returned memory.             *)
(***************************************************************************)
\* mutant: the SAM3 region given the plain write-page command
sam3_add_flash_plainwrite(fl, ok, eefc_base, start, length) ==
    IF ~ok THEN fl
    ELSE target_add_flash(fl,
            [start |-> start, length |-> length,
             blocksize |-> SAM3_PAGE_SIZE,
             erase |-> "sam3_flash_erase", write |-> "sam3x_flash_write",
             buf_size |-> SAM3_PAGE_SIZE,
             eefc_base |-> eefc_base, write_cmd |-> EEFC_FCR_FCMD_WP])

sam3_add_flash(fl, ok, eefc_base, start, length) ==
    IF ~ok THEN fl
    ELSE target_add_flash(fl,
            [start |-> start, length |-> length,
             blocksize |-> SAM3_PAGE_SIZE,
             erase |-> "sam3_flash_erase", write |-> "sam3x_flash_write",
             buf_size |-> SAM3_PAGE_SIZE,
             eefc_base |-> eefc_base, write_cmd |-> EEFC_FCR_FCMD_EWP])

sam4_add_flash(fl, ok, eefc_base, start, length) ==
    IF ~ok THEN fl
    ELSE target_add_flash(fl,
            [start |-> start, length |-> length,
             blocksize |-> SAM4_PAGE_SIZE * 8,
             erase |-> "sam4_flash_erase", write |-> "sam3x_flash_write",
             buf_size |-> SAM4_PAGE_SIZE,
             eefc_base |-> eefc_base, write_cmd |-> EEFC_FCR_FCMD_WP])

(***************************************************************************)
(* Chip identification decoding.                                           *)
(***************************************************************************)
sam_flash_size(cidr) ==
    LET code == And32(cidr, CHIPID_CIDR_NVPSIZ_MASK) IN
    CASE code = CHIPID_CIDR_NVPSIZ_8K -> \h2000
      [] code = CHIPID_CIDR_NVPSIZ_16K -> \h4000
      [] code = CHIPID_CIDR_NVPSIZ_32K -> \h8000
      [] code = CHIPID_CIDR_NVPSIZ_64K -> \h10000
      [] code = CHIPID_CIDR_NVPSIZ_128K -> \h20000
      [] code = CHIPID_CIDR_NVPSIZ_256K -> \h40000
      [] code = CHIPID_CIDR_NVPSIZ_512K -> \h80000
      [] code = CHIPID_CIDR_NVPSIZ_1024K -> \h100000
      [] code = CHIPID_CIDR_NVPSIZ_2048K -> \h200000
      [] OTHER -> 0

sam_sram_size(cidr) ==
    LET code == And32(cidr, CHIPID_CIDR_SRAMSIZ_MASK) IN
    CASE code = CHIPID_CIDR_SRAMSIZ_256K -> \h40000
      [] code = CHIPID_CIDR_SRAMSIZ_384K -> \h60000
      [] OTHER -> 0

samx7x_parse_id(cidr, exid) ==
    LET archf == And32(cidr, CHIPID_CIDR_ARCH_MASK)
        verf == And32(exid, CHIPID_CIDR_VERSION_MASK)
        pinf == And32(exid, CHIPID_EXID_SAMX7X_PINS_MASK)
        fsize == sam_flash_size(cidr)
    IN  [product_code |->
            CASE archf = CHIPID_CIDR_ARCH_SAME70 -> 69
              [] archf = CHIPID_CIDR_ARCH_SAMS70 -> 83
              [] archf = CHIPID_CIDR_ARCH_SAMV71 -> 86
              [] archf = CHIPID_CIDR_ARCH_SAMV70 -> 86
              [] OTHER -> 0,
         product_id |->
            CASE archf = CHIPID_CIDR_ARCH_SAME70 -> 70
              [] archf = CHIPID_CIDR_ARCH_SAMS70 -> 70
              [] archf = CHIPID_CIDR_ARCH_SAMV71 -> 71
              [] archf = CHIPID_CIDR_ARCH_SAMV70 -> 70
              [] OTHER -> 0,
         revision |->
            CASE verf = Shl32(0, 0) -> 65
              [] verf = Shl32(1, 0) -> 66
              [] OTHER -> 95,
         pins |->
            CASE pinf = CHIPID_EXID_SAMX7X_PINS_Q -> 81
              [] pinf = CHIPID_EXID_SAMX7X_PINS_N -> 78
              [] pinf = CHIPID_EXID_SAMX7X_PINS_J -> 74
              [] OTHER -> 0,
         ram_size |-> sam_sram_size(cidr),
         flash_size |-> fsize,
         density |->
            CASE fsize = \h200000 -> 21
              [] fsize = \h100000 -> 20
              [] fsize = \h80000 -> 19
              [] OTHER -> 0]

\* sprintf(sam_variant_string, "SAM%c%02d%c%d%c", ...): the text is
\* determined by its five arguments, kept as they are.
VariantString(descr) ==
    <<"SAM", descr.product_code, descr.product_id, descr.pins,
      descr.density, descr.revision>>

\* the switch of samx7x_probe on cidr & CHIPID_CIDR_ARCH_MASK
\* mutant: the switch without its default case
samx7x_arch_known_nodefault(archf) == TRUE

samx7x_arch_known(archf) ==
    archf \in {CHIPID_CIDR_ARCH_SAME70, CHIPID_CIDR_ARCH_SAMS70,
               CHIPID_CIDR_ARCH_SAMV71, CHIPID_CIDR_ARCH_SAMV70}

(***************************************************************************)
(* Probing.  A probe runs on a target no probe has accepted yet and before *)
(* any flash or monitor call.                                              *)
(***************************************************************************)
CanProbe == probe_result = FALSE /\ nprobes < MaxProbes /\ op = "none"

samx7x_probe ==
    /\ CanProbe
    /\ \E okf \in BOOLEAN, okp \in BOOLEAN :
        LET cidr == target_mem_read32(SAM3X_CHIPID_CIDR)
            exid == IF And32(cidr, CHIPID_CIDR_EXT) # Word0
                    THEN target_mem_read32(SAMX_CHIPID_EXID) ELSE Word0
            archf == And32(cidr, CHIPID_CIDR_ARCH_MASK)
            descr == samx7x_parse_id(cidr, exid)
        IN  /\ last_probe' = "samx7x_probe"
            /\ nprobes' = nprobes + 1
            /\ IF ~samx7x_arch_known(archf)
               THEN /\ probe_result' = FALSE
                    /\ alloc_failed' = 0
                    /\ UNCHANGED <<targetVars, flash_size>>
               ELSE /\ ram' = target_add_ram(ram, \h20400000, descr.ram_size)
                    /\ flash' = sam4_add_flash(flash, okf, SAMX7X_EEFC_BASE,
                                               \h00400000, descr.flash_size)
                    /\ commands' = target_add_commands(commands, "SAMX7X")
                    /\ flash_size' = descr.flash_size
                    /\ alloc_failed' = (IF okf THEN 0 ELSE 1) + (IF okp THEN 0 ELSE 1)
                    /\ IF ~okp
                       THEN /\ probe_result' = FALSE
                            /\ UNCHANGED <<driver, target_storage>>
                       ELSE /\ target_storage' = VariantString(descr)
                            /\ driver' = VariantString(descr)
                            /\ probe_result' = TRUE
    /\ UNCHANGED <<mem, callVars, cmdVars, histVars, link_error>>

sam3x_probe ==
    /\ CanProbe
    /\ \E ok1 \in BOOLEAN, ok2 \in BOOLEAN :
        LET cidr1 == target_mem_read32(SAM3X_CHIPID_CIDR)
            size1 == sam_flash_size(cidr1)
            key1 == And32(cidr1, Or32(CHIPID_CIDR_ARCH_MASK, CHIPID_CIDR_EPROC_MASK))
            cidr2 == target_mem_read32(SAM34NSU_CHIPID_CIDR)
            size2 == sam_flash_size(cidr2)
            key2 == And32(cidr2, Or32(CHIPID_CIDR_ARCH_MASK, CHIPID_CIDR_EPROC_MASK))
            CM3(a) == Or32(a, CHIPID_CIDR_EPROC_CM3)
            CM4(a) == Or32(a, CHIPID_CIDR_EPROC_CM4)
            failed(n) == IF n THEN 0 ELSE 1
        IN  /\ last_probe' = "sam3x_probe"
            /\ nprobes' = nprobes + 1
            /\ UNCHANGED target_storage
            /\ CASE key1 \in {CM3(CHIPID_CIDR_ARCH_SAM3XxC), CM3(CHIPID_CIDR_ARCH_SAM3XxE),
                              CM3(CHIPID_CIDR_ARCH_SAM3XxG)} ->
                    /\ driver' = <<"Atmel SAM3X">>
                    /\ ram' = target_add_ram(ram, \h20000000, \h200000)
                    /\ flash' = sam3_add_flash(
                                    sam3_add_flash(flash, ok1, SAM3X_EEFC_BASE(0),
                                                   \h80000, size1 \div 2),
                                    ok2, SAM3X_EEFC_BASE(1),
                                    \h80000 + size1 \div 2, size1 \div 2)
                    /\ commands' = target_add_commands(commands, "SAM3X")
                    /\ flash_size' = size1
                    /\ alloc_failed' = failed(ok1) + failed(ok2)
                    /\ probe_result' = TRUE
                 [] key1 \notin {CM3(CHIPID_CIDR_ARCH_SAM3XxC), CM3(CHIPID_CIDR_ARCH_SAM3XxE),
                                 CM3(CHIPID_CIDR_ARCH_SAM3XxG)}
                    /\ key2 \in {CM3(CHIPID_CIDR_ARCH_SAM3NxA), CM3(CHIPID_CIDR_ARCH_SAM3NxB),
                                 CM3(CHIPID_CIDR_ARCH_SAM3NxC), CM3(CHIPID_CIDR_ARCH_SAM3SxA),
                                 CM3(CHIPID_CIDR_ARCH_SAM3SxB), CM3(CHIPID_CIDR_ARCH_SAM3SxC)} ->
                    /\ driver' = <<"Atmel SAM3N/S">>
                    /\ ram' = target_add_ram(ram, \h20000000, \h200000)
                    /\ flash' = sam3_add_flash(flash, ok1, SAM3N_EEFC_BASE,
                                               \h400000, size2)
                    /\ commands' = target_add_commands(commands, "SAM3N/S")
                    /\ flash_size' = size2
                    /\ alloc_failed' = failed(ok1)
                    /\ probe_result' = TRUE
                 [] key1 \notin {CM3(CHIPID_CIDR_ARCH_SAM3XxC), CM3(CHIPID_CIDR_ARCH_SAM3XxE),
                                 CM3(CHIPID_CIDR_ARCH_SAM3XxG)}
                    /\ key2 \in {CM3(CHIPID_CIDR_ARCH_SAM3UxC), CM3(CHIPID_CIDR_ARCH_SAM3UxE)} ->
                    /\ driver' = <<"Atmel SAM3U">>
                    /\ ram' = target_add_ram(ram, \h20000000, \h200000)
                    /\ flash' = IF size2 >= \h80000
                                THEN sam3_add_flash(
                                        sam3_add_flash(flash, ok1, SAM3U_EEFC_BASE(0),
                                                       \h80000, MIN(size2, \h80000)),
                                        ok2, SAM3U_EEFC_BASE(1), \h100000, \h80000)
                                ELSE sam3_add_flash(flash, ok1, SAM3U_EEFC_BASE(0),
                                                    \h80000, MIN(size2, \h80000))
                    /\ commands' = target_add_commands(commands, "SAM3U")
                    /\ flash_size' = size2
                    /\ alloc_failed' = failed(ok1)
                                       + (IF size2 >= \h80000 THEN failed(ok2) ELSE 0)
                    /\ probe_result' = TRUE
                 [] key1 \notin {CM3(CHIPID_CIDR_ARCH_SAM3XxC), CM3(CHIPID_CIDR_ARCH_SAM3XxE),
                                 CM3(CHIPID_CIDR_ARCH_SAM3XxG)}
                    /\ key2 \in {CM4(CHIPID_CIDR_ARCH_SAM4SxA), CM4(CHIPID_CIDR_ARCH_SAM4SxB),
                                 CM4(CHIPID_CIDR_ARCH_SAM4SxC), CM4(CHIPID_CIDR_ARCH_SAM4SDB),
                                 CM4(CHIPID_CIDR_ARCH_SAM4SDC)} ->
                    /\ driver' = <<"Atmel SAM4S">>
                    /\ ram' = target_add_ram(ram, \h20000000, \h400000)
                    /\ flash' = IF size2 <= \h80000
                                THEN sam4_add_flash(flash, ok1, SAM4S_EEFC_BASE(0),
                                                    \h400000, size2)
                                ELSE sam4_add_flash(
                                        sam4_add_flash(flash, ok1, SAM4S_EEFC_BASE(0),
                                                       \h400000, size2 \div 2),
                                        ok2, SAM4S_EEFC_BASE(1),
                                        \h400000 + size2 \div 2, size2 \div 2)
                    /\ commands' = target_add_commands(commands, "SAM4S")
                    /\ flash_size' = size2
                    /\ alloc_failed' = failed(ok1)
                                       + (IF size2 <= \h80000 THEN 0 ELSE failed(ok2))
                    /\ probe_result' = TRUE
                 [] OTHER ->
                    /\ probe_result' = FALSE
                    /\ alloc_failed' = 0
                    /\ UNCHANGED <<driver, flash, ram, commands, flash_size>>
    /\ UNCHANGED <<mem, callVars, cmdVars, histVars, link_error>>

(***************************************************************************)
(* Inputs of the flash and monitor calls.  The flashing layer hands erase  *)
(* and write an address inside the region it selected, so addr >= start    *)
(* and addr - start does not wrap.                                         *)
(***************************************************************************)
StatusValues == 0 .. 15
FrrValues == {0, 5}
ArgcValues == 1 .. 4
BitValues == {0, 1, 7, 65541}
ValValues == {0, 1, 2}

InRegion(r, a, n) == a >= r.start /\ a + n <= r.start + r.length

EraseAddrs(r) ==
    {a \in {r.start, r.start + r.buf_size, r.start + r.length - r.blocksize} :
        InRegion(r, a, 1)}

EraseLens(r, a) ==
    {n \in {0, 1, r.blocksize, r.blocksize + 1, MaxBlocks * r.blocksize} :
        InRegion(r, a, n)}

WriteAddrs(r) ==
    {a \in {r.start, r.start + r.buf_size, r.start + r.length - r.buf_size} :
        InRegion(r, a, r.buf_size)}

CanCall == pc \in {"idle", "returned"}

Clean(results) == \A i \in 1 .. Len(results) : results[i] = 0

NoLast ==
    [op |-> "none", ok |-> FALSE, clean |-> FALSE, lost |-> FALSE,
     some |-> FALSE, erased |-> FALSE]

\* what a write keeps of an erase of the same region and address that
\* returned just before it
Summary(i, a) ==
    IF op = "erase" /\ f = i /\ addr = a
    THEN [op |-> "erase", ok |-> (ret = 0), clean |-> Clean(cmd_results),
          lost |-> (\E j \in 1 .. Len(cmd_results) : cmd_results[j] = -1),
          some |-> (len_in > 0),
          erased |-> (cmd_results # <<>> /\ cmd_results[1] = 0)]
    ELSE NoLast

\* outside a sequencer call its parameters and locals are at rest
NoFlashCmd ==
    /\ cpc' = "none"
    /\ cmd' = 0
    /\ arg' = 0
    /\ arg_in' = 0
    /\ sr' = 0
    /\ terr' = FALSE
    /\ cmd_result' = 0

(***************************************************************************)
(* sam3x_flash_cmd: ISSUE, POLL, then READY or a transport failure.        *)
(***************************************************************************)
CommandWord(c, a) == BitOr(BitOr(EEFC_FCR_FKEY, c), a * 2^8)

\* the caller's side of the call: the argument converts to uint16_t
CallFlashCmd(c, a) ==
    /\ cmd' = c
    /\ arg_in' = a
    /\ arg' = ToUint16(a)
    /\ cpc' = "issue"
    /\ sr' = 0
    /\ terr' = FALSE
    /\ cmd_result' = 0

flash_cmd_issue ==
    /\ cpc = "issue"
    /\ hw' = Append(hw, [k |-> "write32", a |-> EEFC_FCR(base),
                         v |-> CommandWord(cmd, arg)])
    /\ cpc' = "poll"
    /\ terr' = FALSE
    /\ LinkAccess
    /\ UNCHANGED <<mem, targetVars, probeVars, callVars, cmd, arg, arg_in, sr,
                   cmd_result, cmd_results, console, last>>

\* mutant: the loop body without target_check_error
PollNext_nocheck(v) == IF BitAnd(v, EEFC_FSR_FRDY) # 0 THEN "reread" ELSE "poll"

\* mutant: the loop tests the command-error bit instead of the ready bit
PollNext_wrongbit(v) == IF BitAnd(v, EEFC_FSR_FCMDE) # 0 THEN "reread" ELSE "check"

PollNext(v) == IF BitAnd(v, EEFC_FSR_FRDY) # 0 THEN "reread" ELSE "check"

flash_cmd_poll(v) ==
    /\ cpc = "poll"
    /\ sr' = v
    /\ cpc' = PollNext(v)
    /\ LinkAccess
    /\ UNCHANGED <<mem, targetVars, probeVars, callVars, cmd, arg, arg_in, terr,
                   cmd_result, histVars>>

flash_cmd_read_status == \E v \in StatusValues : flash_cmd_poll(v)

\* if (target_check_error(t)) return -1;
\* mutant: the answer ignored, the loop polls on
CheckErrorNext_ignored(e) == "poll"

CheckErrorNext(e) == IF e THEN "done" ELSE "poll"

flash_cmd_check_error ==
    /\ cpc = "check"
    /\ terr' = target_check_error(link_error)
    /\ link_error' = FALSE
    /\ cpc' = CheckErrorNext(target_check_error(link_error))
    /\ IF CheckErrorNext(target_check_error(link_error)) = "done"
       THEN /\ cmd_result' = -1
            /\ cmd_results' = Append(cmd_results, -1)
       ELSE UNCHANGED <<cmd_result, cmd_results>>
    /\ UNCHANGED <<mem, targetVars, probeVars, callVars, cmd, arg, arg_in, sr,
                   hw, console, last>>

\* mutant: the mask applied to the value the loop read, without the re-read
ReadyResult_polled(polled, reread) == BitAnd(polled, EEFC_FSR_ERROR)

ReadyResult(polled, reread) == BitAnd(reread, EEFC_FSR_ERROR)

flash_cmd_ready ==
    /\ cpc = "reread"
    /\ \E v \in StatusValues :
        /\ sr' = v
        /\ cmd_result' = ReadyResult(sr, v)
        /\ cmd_results' = Append(cmd_results, ReadyResult(sr, v))
    /\ cpc' = "done"
    /\ LinkAccess
    /\ UNCHANGED <<mem, targetVars, probeVars, callVars, cmd, arg, arg_in, terr,
                   hw, console, last>>

sam3x_flash_base ==
    CASE driver = <<"Atmel SAM3X">> -> SAM3X_EEFC_BASE(0)
      [] driver = <<"Atmel SAM3U">> -> SAM3U_EEFC_BASE(0)
      [] driver = <<"Atmel SAM4S">> -> SAM4S_EEFC_BASE(0)
      [] driver = <<"Atmel SAM3N/S">> -> SAM3N_EEFC_BASE
      [] OTHER -> SAMX7X_EEFC_BASE

(***************************************************************************)
(* Erase.                                                                  *)
(***************************************************************************)
\* if (sam3x_flash_cmd(...)): any non-zero result is a failure
\* mutant: only a negative result counts as a failure
FlashCmdFailed_negative(result) == result < 0

FlashCmdFailed(result) == result # 0

\* the head of the while loop: leave with 0, or issue the next page erase
\* (int16_t arg = chunk | 0x1)
EraseLoop(n, c) ==
    IF n = 0
    THEN /\ pc' = "returned"
         /\ NoFlashCmd
    ELSE /\ pc' = "erase_cmd"
         /\ CallFlashCmd(EEFC_FCR_FCMD_EPA, ToInt16(BitOr(c, 1)))

sam4_flash_erase ==
    /\ CanCall
    /\ \E i \in 1 .. Len(flash) :
        /\ flash[i].erase = "sam4_flash_erase"
        /\ \E a \in EraseAddrs(flash[i]) : \E n \in EraseLens(flash[i], a) :
            /\ op' = "erase"
            /\ f' = i
            /\ addr' = a
            /\ len' = n
            /\ len_in' = n
            /\ base' = flash[i].eefc_base
            /\ chunk' = (a - flash[i].start) \div SAM4_PAGE_SIZE
            /\ EraseLoop(n, (a - flash[i].start) \div SAM4_PAGE_SIZE)
    /\ ret' = 0
    /\ bret' = FALSE
    /\ argc' = 0
    /\ argv' = <<>>
    /\ hw' = <<>>
    /\ cmd_results' = <<>>
    /\ console' = <<>>
    /\ last' = NoLast
    /\ UNCHANGED <<mem, targetVars, probeVars, link_error>>

EraseFailure(result) == -1

\* mutant: a trailing partial block dropped
EraseRemaining_floor(n, blocksize) == IF n >= 2 * blocksize THEN n - blocksize ELSE 0

EraseRemaining(n, blocksize) == IF n > blocksize THEN n - blocksize ELSE 0

sam4_flash_erase_resume ==
    /\ op = "erase"
    /\ pc = "erase_cmd"
    /\ cpc = "done"
    /\ IF FlashCmdFailed(cmd_result)
       THEN /\ ret' = EraseFailure(cmd_result)
            /\ pc' = "returned"
            /\ NoFlashCmd
            /\ UNCHANGED <<len, chunk>>
       ELSE /\ ret' = 0
            /\ len' = EraseRemaining(len, flash[f].blocksize)
            /\ chunk' = chunk + 8
            /\ EraseLoop(EraseRemaining(len, flash[f].blocksize), chunk + 8)
    /\ UNCHANGED <<mem, targetVars, probeVars, op, f, addr, len_in, base, bret, argc, argv,
                   histVars, link_error>>

\* mutant: the stub replaced by a page-erase loop like the SAM4 one
sam3_flash_erase_paged ==
    /\ CanCall
    /\ \E i \in 1 .. Len(flash) :
        /\ flash[i].erase = "sam3_flash_erase"
        /\ \E a \in EraseAddrs(flash[i]) : \E n \in EraseLens(flash[i], a) :
            /\ op' = "erase"
            /\ f' = i
            /\ addr' = a
            /\ len' = n
            /\ len_in' = n
            /\ base' = flash[i].eefc_base
            /\ chunk' = (a - flash[i].start) \div SAM3_PAGE_SIZE
            /\ EraseLoop(n, (a - flash[i].start) \div SAM3_PAGE_SIZE)
    /\ ret' = 0
    /\ bret' = FALSE
    /\ argc' = 0
    /\ argv' = <<>>
    /\ hw' = <<>>
    /\ cmd_results' = <<>>
    /\ console' = <<>>
    /\ last' = NoLast
    /\ UNCHANGED <<mem, targetVars, probeVars, link_error>>

sam3_flash_erase ==
    /\ CanCall
    /\ \E i \in 1 .. Len(flash) :
        /\ flash[i].erase = "sam3_flash_erase"
        /\ \E a \in EraseAddrs(flash[i]) : \E n \in EraseLens(flash[i], a) :
            /\ op' = "erase"
            /\ f' = i
            /\ addr' = a
            /\ len' = n
            /\ len_in' = n
    /\ ret' = 0
    /\ pc' = "returned"
    /\ chunk' = 0
    /\ base' = 0
    /\ bret' = FALSE
    /\ argc' = 0
    /\ argv' = <<>>
    /\ NoFlashCmd
    /\ hw' = <<>>
    /\ cmd_results' = <<>>
    /\ console' = <<>>
    /\ last' = NoLast
    /\ UNCHANGED <<mem, targetVars, probeVars, link_error>>

(***************************************************************************)
(* Write.                                                                  *)
(***************************************************************************)
\* unsigned chunk = (dest - f->start) / f->buf_size
\* mutant: the byte offset passed instead of the page index
WriteChunk_offset(dest, start, buf_size) == dest - start

WriteChunk(dest, start, buf_size) == (dest - start) \div buf_size

sam3x_flash_write ==
    /\ CanCall
    /\ \E i \in 1 .. Len(flash) : \E dest \in WriteAddrs(flash[i]) :
        /\ op' = "write"
        /\ f' = i
        /\ addr' = dest
        /\ len' = flash[i].buf_size
        /\ len_in' = flash[i].buf_size
        /\ base' = flash[i].eefc_base
        /\ chunk' = WriteChunk(dest, flash[i].start, flash[i].buf_size)
        /\ hw' = <<[k |-> "mem_write", a |-> dest, v |-> flash[i].buf_size]>>
        /\ CallFlashCmd(flash[i].write_cmd,
                        WriteChunk(dest, flash[i].start, flash[i].buf_size))
        /\ last' = Summary(i, dest)
    /\ pc' = "write_cmd"
    /\ ret' = 0
    /\ bret' = FALSE
    /\ argc' = 0
    /\ argv' = <<>>
    /\ cmd_results' = <<>>
    /\ console' = <<>>
    /\ LinkAccess
    /\ UNCHANGED <<mem, targetVars, probeVars>>

\* mutant: the sequencer's result returned as it is
WriteResult_direct(result) == result

WriteResult(result) == IF FlashCmdFailed(result) THEN -1 ELSE 0

sam3x_flash_write_resume ==
    /\ op = "write"
    /\ pc = "write_cmd"
    /\ cpc = "done"
    /\ ret' = WriteResult(cmd_result)
    /\ pc' = "returned"
    /\ NoFlashCmd
    /\ UNCHANGED <<mem, targetVars, probeVars, op, f, addr, len, len_in, chunk, base,
                   bret, argc, argv, histVars, link_error>>

(***************************************************************************)
(* Monitor commands.  bit and val are the values atol returns for argv[1]  *)
(* and argv[2].                                                            *)
(***************************************************************************)
sam3x_cmd_gpnvm_get ==
    /\ CanCall
    /\ commands # <<>>
    /\ op' = "gpnvm_get"
    /\ base' = sam3x_flash_base
    /\ \E n \in ArgcValues : argc' = n
    /\ argv' = <<>>
    /\ pc' = "get_cmd"
    /\ CallFlashCmd(EEFC_FCR_FCMD_GGPB, 0)
    /\ f' = 0
    /\ addr' = 0
    /\ len' = 0
    /\ len_in' = 0
    /\ chunk' = 0
    /\ ret' = 0
    /\ bret' = FALSE
    /\ hw' = <<>>
    /\ cmd_results' = <<>>
    /\ console' = <<>>
    /\ last' = NoLast
    /\ UNCHANGED <<mem, targetVars, probeVars, link_error>>

GpnvmResult(result) == TRUE

sam3x_cmd_gpnvm_get_resume ==
    /\ pc = "get_cmd"
    /\ cpc = "done"
    /\ \E v \in FrrValues :
        /\ hw' = Append(hw, [k |-> "read32", a |-> EEFC_FRR(base), v |-> v])
        /\ console' = Append(console, [msg |-> "GPNVM", v |-> v])
    /\ bret' = GpnvmResult(cmd_result)
    /\ pc' = "returned"
    /\ NoFlashCmd
    /\ LinkAccess
    /\ UNCHANGED <<mem, targetVars, probeVars, op, f, addr, len, len_in, chunk, base,
                   ret, argc, argv, cmd_results, last>>

\* cmd = atol(argv[2]) ? EEFC_FCR_FCMD_SGPB : EEFC_FCR_FCMD_CGPB
\* mutant: the two opcodes exchanged
GpnvmCommand_swapped(val) ==
    IF val # 0 THEN EEFC_FCR_FCMD_CGPB ELSE EEFC_FCR_FCMD_SGPB

GpnvmCommand(val) == IF val # 0 THEN EEFC_FCR_FCMD_SGPB ELSE EEFC_FCR_FCMD_CGPB

\* if (argc != 3)
\* mutant: only too few arguments are refused
UsageError_toofew(n) == n < 3

UsageError(n) == n # 3

sam3x_cmd_gpnvm_set ==
    /\ CanCall
    /\ commands # <<>>
    /\ op' = "gpnvm_set"
    /\ base' = sam3x_flash_base
    /\ \E n \in ArgcValues :
        /\ argc' = n
        /\ IF UsageError(n)
           THEN /\ console' = <<[msg |-> "usage", v |-> 0]>>
                /\ pc' = "returned"
                /\ argv' = <<>>
                /\ NoFlashCmd
           ELSE \E bit \in BitValues, val \in ValValues :
                /\ console' = <<>>
                /\ pc' = "set_cmd"
                /\ argv' = <<bit, val>>
                /\ CallFlashCmd(GpnvmCommand(val), bit)
    /\ f' = 0
    /\ addr' = 0
    /\ len' = 0
    /\ len_in' = 0
    /\ chunk' = 0
    /\ ret' = 0
    /\ bret' = FALSE
    /\ hw' = <<>>
    /\ cmd_results' = <<>>
    /\ last' = NoLast
    /\ UNCHANGED <<mem, targetVars, probeVars, link_error>>

sam3x_cmd_gpnvm_set_resume ==
    /\ op = "gpnvm_set"
    /\ pc = "set_cmd"
    /\ cpc = "done"
    /\ pc' = "get_cmd"
    /\ CallFlashCmd(EEFC_FCR_FCMD_GGPB, 0)
    /\ UNCHANGED <<mem, targetVars, probeVars, op, f, addr, len, len_in, chunk, base,
                   ret, bret, argc, argv, histVars, link_error>>

(***************************************************************************)
(* Initial states: a target that no probe has visited, attached to a       *)
(* device whose identification registers hold the given words.             *)
(***************************************************************************)
MakeCidr(ext, archc, sramc, nvpsizc, eprocc) ==
    Or32(Or32(Shl32(ext, 31), Shl32(archc, CHIPID_CIDR_ARCH_OFFSET)),
         Or32(Or32(Shl32(sramc, CHIPID_CIDR_SRAMSIZ_OFFSET),
                   Shl32(nvpsizc, CHIPID_CIDR_NVPSIZ_OFFSET)),
              Shl32(eprocc, CHIPID_CIDR_EPROC_OFFSET)))

MemOf(c3x, c34, e) ==
    (SAM3X_CHIPID_CIDR :> c3x) @@ (SAM34NSU_CHIPID_CIDR :> c34)
        @@ (SAMX_CHIPID_EXID :> e)

ArchCodes ==
    {16, 17, 18, 19, 128, 129, 132, 133, 134, 136, 137, 138, 147, 148, 149,
     153, 154, 60}
EprocCodes == {0, 3, 7}
NvpsizCodes == 0 .. 15
SramCodes == {0, 13}
ExidValues == {<<0, 0>>, <<0, 1>>, <<0, 2>>, <<0, 3>>}

CidrValues ==
    {MakeCidr(e, a, s, n, p) :
        e \in {0, 1}, a \in ArchCodes, s \in SramCodes, n \in NvpsizCodes,
        p \in EprocCodes}

InitTarget ==
    /\ driver = <<"ARM Cortex-M">>
    /\ flash = <<>>
    /\ ram = <<>>
    /\ commands = <<>>
    /\ target_storage = <<>>
    /\ probe_result = FALSE
    /\ last_probe = "none"
    /\ nprobes = 0
    /\ flash_size = 0
    /\ alloc_failed = 0

InitCall ==
    /\ op = "none"
    /\ pc = "idle"
    /\ f = 0
    /\ addr = 0
    /\ len = 0
    /\ len_in = 0
    /\ chunk = 0
    /\ base = 0
    /\ ret = 0
    /\ bret = FALSE
    /\ argc = 0
    /\ argv = <<>>
    /\ cpc = "none"
    /\ cmd = 0
    /\ arg = 0
    /\ arg_in = 0
    /\ sr = 0
    /\ terr = FALSE
    /\ cmd_result = 0
    /\ hw = <<>>
    /\ cmd_results = <<>>
    /\ console = <<>>
    /\ last = NoLast
    /\ link_error = FALSE

(***************************************************************************)
(* ProbeSpec: the probes alone, over every identification value of the     *)
(* field sets above, at either identification-register address.            *)
(***************************************************************************)
ProbeInit ==
    /\ mem \in {MemOf(c, Word0, e) : c \in CidrValues, e \in ExidValues}
               \cup {MemOf(Word0, c, Word0) : c \in CidrValues}
    /\ InitTarget
    /\ InitCall

ProbeNext == samx7x_probe \/ sam3x_probe

ProbeSpec == ProbeInit /\ [][ProbeNext]_vars

(***************************************************************************)
(* Spec: probing followed by flash and monitor calls, on a sample of       *)
(* devices of every family.                                                *)
(***************************************************************************)
DeviceSample ==
    {MemOf(MakeCidr(0, 133, 13, 10, 3), Word0, Word0),
     MemOf(Word0, MakeCidr(0, 147, 13, 14, 3), Word0),
     MemOf(Word0, MakeCidr(0, 128, 13, 9, 3), Word0),
     MemOf(Word0, MakeCidr(0, 138, 13, 12, 7), Word0),
     MemOf(Word0, MakeCidr(0, 153, 13, 10, 7), Word0),
     MemOf(MakeCidr(1, 16, 2, 14, 0), Word0, <<0, 2>>),
     MemOf(MakeCidr(0, 60, 13, 10, 3), Word0, Word0)}

Init ==
    /\ mem \in DeviceSample
    /\ InitTarget
    /\ InitCall

Next ==
    \/ samx7x_probe
    \/ sam3x_probe
    \/ sam4_flash_erase
    \/ sam4_flash_erase_resume
    \/ sam3_flash_erase
    \/ sam3x_flash_write
    \/ sam3x_flash_write_resume
    \/ sam3x_cmd_gpnvm_get
    \/ sam3x_cmd_gpnvm_get_resume
    \/ sam3x_cmd_gpnvm_set
    \/ sam3x_cmd_gpnvm_set_resume
    \/ flash_cmd_issue
    \/ flash_cmd_read_status
    \/ flash_cmd_check_error
    \/ flash_cmd_ready

Spec == Init /\ [][Next]_vars

(***************************************************************************)
(* LiveSpec: Spec on two single-bank devices, with the thread making       *)
(* progress and the device eventually answering a poll with the ready bit, *)
(* or the transport eventually reporting an error.                         *)
(***************************************************************************)
LiveDevices ==
    {MemOf(Word0, MakeCidr(0, 147, 13, 9, 3), Word0),
     MemOf(Word0, MakeCidr(0, 153, 13, 10, 7), Word0)}

LiveInit ==
    /\ mem \in LiveDevices
    /\ InitTarget
    /\ InitCall

ReadyRead == \E v \in StatusValues : BitAnd(v, EEFC_FSR_FRDY) # 0 /\ flash_cmd_poll(v)

ErrorSeen == flash_cmd_check_error /\ terr'

LiveSpec ==
    /\ LiveInit
    /\ [][Next]_vars
    /\ WF_vars(Next)
    /\ SF_vars(ReadyRead \/ ErrorSeen)

(***************************************************************************)
(* Properties.                                                             *)
(***************************************************************************)
RECURSIVE SumLengths(_)
SumLengths(fl) == IF fl = <<>> THEN 0 ELSE Head(fl).length + SumLengths(Tail(fl))

Contiguous(fl) ==
    \A i \in 1 .. Len(fl) - 1 :
        /\ fl[i + 1].start > fl[i].start
        /\ fl[i + 1].start = fl[i].start + fl[i].length

Issued(log) == {i \in 1 .. Len(log) : log[i].k = "write32"}

InFlashCmd == cpc \in {"issue", "poll", "check", "reread"}

InCall == pc \notin {"idle", "returned"}

FlashCall == op \in {"erase", "write"}

MonitorCall == op \in {"gpnvm_get", "gpnvm_set"}

\* the recognition tables, as (architecture, processor) codes
ArchOf(c) == (c[1] \div 16) % 256
EprocOf(c) == (c[2] \div 32) % 8
SamX7Table == {16, 17, 18, 19}
Sam3XTable == {<<132, 3>>, <<133, 3>>, <<134, 3>>}
Sam34Table ==
    {<<147, 3>>, <<148, 3>>, <<149, 3>>, <<136, 3>>, <<137, 3>>, <<138, 3>>,
     <<128, 3>>, <<129, 3>>,
     <<136, 7>>, <<137, 7>>, <<138, 7>>, <<153, 7>>, <<154, 7>>}

Recognized(probe) ==
    IF probe = "samx7x_probe"
    THEN ArchOf(mem[SAM3X_CHIPID_CIDR]) \in SamX7Table
    ELSE \/ <<ArchOf(mem[SAM3X_CHIPID_CIDR]), EprocOf(mem[SAM3X_CHIPID_CIDR])>>
                \in Sam3XTable
         \/ <<ArchOf(mem[SAM34NSU_CHIPID_CIDR]), EprocOf(mem[SAM34NSU_CHIPID_CIDR])>>
                \in Sam34Table

Untouched ==
    /\ flash = <<>>
    /\ ram = <<>>
    /\ commands = <<>>
    /\ target_storage = <<>>
    /\ driver = <<"ARM Cortex-M">>

\* C1: after a successful probe the lengths of the registered flash regions
\* sum to the decoded flash size, and the regions' start addresses strictly
\* increase, each region starting where the previous one ends.  Stated for
\* the probes in which no allocation failed and the size code decodes to a
\* non-zero size, where no region is skipped and none is empty.
C1_FlashLayout ==
    (probe_result /\ nprobes = 1 /\ alloc_failed = 0 /\ flash_size > 0)
        => (SumLengths(flash) = flash_size /\ Contiguous(flash))

UsableRegions ==
    {i \in 1 .. Len(flash) : flash[i].length > 0}
        \cup {-i : i \in {j \in 1 .. Len(ram) : ram[j].length > 0}}

\* C2: a probe reports failure only when it registered no usable region: a
\* probe that registered a flash or RAM region of non-zero length returns
\* true.
C2_FailsOnlyWithoutRegion ==
    (nprobes = 1 /\ UsableRegions # {}) => probe_result

\* C3: a probe of a device whose (architecture, processor) codes are not in
\* its recognition table returns false and changes nothing of the target;
\* a target that only unrecognizing probes visited, once or more, has no
\* flash region, no RAM region, no command table and its driver label.
C3_UnrecognizedNoOp ==
    /\ [][(nprobes' = nprobes + 1 /\ ~Recognized(last_probe'))
            => (probe_result' = FALSE /\ UNCHANGED targetVars)]_vars
    /\ []((~Recognized("samx7x_probe") /\ ~Recognized("sam3x_probe"))
            => (probe_result = FALSE /\ Untouched))

C3_Witness ==
    /\ nprobes = 2
    /\ ~Recognized("samx7x_probe")
    /\ ~Recognized("sam3x_probe")
    /\ ArchOf(mem[SAM34NSU_CHIPID_CIDR]) = 136
    /\ EprocOf(mem[SAM34NSU_CHIPID_CIDR]) = 0
    /\ probe_result = FALSE
    /\ Untouched

\* C4: an erase or write call returns success exactly when every sequencer
\* call it made returned 0; once a sequencer call of the call has returned
\* non-zero no further command is written to the command register; and a
\* write that follows an erase of the same region and address succeeds
\* together with it exactly when every sequencer call of both returned 0.
C4_SuccessIffAllReady ==
    FlashCall =>
        /\ pc = "returned" => (ret = 0 <=> Clean(cmd_results))
        /\ \A i \in 1 .. Len(cmd_results) :
              cmd_results[i] # 0 => Cardinality(Issued(hw)) = i
        /\ (pc = "returned" /\ op = "write" /\ last.op = "erase")
              => ((last.ok /\ ret = 0) <=> (last.clean /\ Clean(cmd_results)))

C4_Witness ==
    /\ op = "erase"
    /\ pc = "returned"
    /\ ret # 0
    /\ Len(cmd_results) = 2
    /\ cmd_results[1] = 0
    /\ cmd_results[2] = 4
    /\ len > flash[f].blocksize
    /\ Cardinality(Issued(hw)) = 2

\* C5 as claimed: in POLL every status-register read is followed by a query
\* of the transport-error signal, and a set signal ends the call with -1.
C5_QueryAfterEveryRead ==
    /\ [][cpc = "poll" => cpc' = "check"]_vars
    /\ [][(cpc = "check" /\ terr') => (cpc' = "done" /\ cmd_result' = -1)]_vars

\* C5 as amended: the transport-error signal is queried after every status
\* read that shows the ready bit clear and after no read that shows it set;
\* a set signal ends the call at once with -1, and -1 is returned in no
\* other case (a ready return is one of 0, 2, 4, 6).
C5_QueryAfterBusyRead ==
    /\ [][(cpc = "poll" /\ sr' % 2 = 0) => cpc' = "check"]_vars
    /\ [][(cpc = "poll" /\ sr' % 2 = 1) => cpc' = "reread"]_vars
    /\ [][(cpc = "check" /\ terr') => (cpc' = "done" /\ cmd_result' = -1)]_vars
    /\ [](cpc = "done" => (cmd_result = -1 <=> terr))
    /\ []((cpc = "done" /\ ~terr) => cmd_result \in {0, 2, 4, 6})

C5_Witness ==
    /\ cpc = "done"
    /\ terr
    /\ cmd_result = -1
    /\ sr = 6

\* C6: the sequencer returns only after a poll read that showed the ready
\* bit or a transport-error query that answered true, it returns after
\* either, and nothing else ends the loop; if the device eventually shows
\* ready or the transport eventually reports an error, every sequencer call
\* and every erase, write and monitor call returns.
C6_ReturnsIffReadyOrError ==
    /\ [][(cpc # "done" /\ cpc' = "done") => (sr % 2 = 1 \/ terr')]_vars
    /\ [][(cpc = "poll" /\ sr' % 2 = 1) => cpc' = "reread"]_vars
    /\ [][cpc = "reread" => cpc' = "done"]_vars
    /\ [][(cpc = "check" /\ terr') => cpc' = "done"]_vars
    /\ [][(cpc = "check" /\ ~terr') => cpc' = "poll"]_vars
    /\ (InFlashCmd ~> cpc = "done")
    /\ (InCall ~> pc = "returned")

C6_Witness ==
    /\ op = "erase"
    /\ pc = "returned"
    /\ ret = 0
    /\ Len(cmd_results) = 3

\* C7 as claimed: erase and write return the value their last sequencer
\* call returned.
C7_ResultPropagated ==
    (FlashCall /\ pc = "returned" /\ cmd_results # <<>>)
        => ret = cmd_results[Len(cmd_results)]

\* C7 as amended: erase and write return 0 when their last sequencer call
\* returned 0 and -1 when it returned anything else, an error-bit mask as
\* much as a transport failure.
C7_ResultCollapsed ==
    (FlashCall /\ pc = "returned" /\ cmd_results # <<>>)
        => ret = (IF cmd_results[Len(cmd_results)] = 0 THEN 0 ELSE -1)

C7_Witness ==
    /\ op = "write"
    /\ pc = "returned"
    /\ cmd_results = <<2>>
    /\ ret = -1

\* C8: a monitor command whose sequencer call returned a command error or a
\* transport failure returns failure.
C8_MonitorReportsFailure ==
    (MonitorCall /\ pc = "returned" /\ ~Clean(cmd_results)) => bret = FALSE

\* C9: a sequencer call that saw the ready bit returns the command-error and
\* lock-error bits of the status value it read last (the re-read) and
\* nothing else, so 0 exactly when neither bit is set in it.
C9_ErrorBitsOfReread ==
    (cpc = "done" /\ ~terr)
        => /\ cmd_result = 2 * ((sr \div 2) % 2) + 4 * ((sr \div 4) % 2)
           /\ cmd_result = 0 <=> ((sr \div 2) % 2 = 0 /\ (sr \div 4) % 2 = 0)

C9_Witness ==
    /\ cpc = "done"
    /\ ~terr
    /\ sr = 11
    /\ cmd_result = 2

\* C10: the word of every command-register write is the key 0x5A in the top
\* byte, the opcode in the low byte and the low 16 bits of the caller's
\* argument in bits 8 to 23, on the erase, write and GPNVM paths.
C10_CommandWord ==
    cpc \in {"poll", "check", "reread", "done"}
        => /\ hw # <<>>
           /\ hw[Len(hw)].k = "write32"
           /\ hw[Len(hw)].a = base + 4
           /\ hw[Len(hw)].v = 90 * 2^24 + (arg_in % 65536) * 2^8 + cmd
           /\ hw[Len(hw)].v \div 2^24 = 90

C10_Witness ==
    /\ cpc = "poll"
    /\ op = "gpnvm_set"
    /\ arg_in = 65541
    /\ hw[Len(hw)].v = 90 * 2^24 + 5 * 2^8 + 11

\* C11: an erase on a region of a family without page erase (SAM3) returns
\* 0 at once for every address and length: it makes no sequencer call, no
\* register write or read and no memory write, and it leaves the target's
\* regions, command table, label and memory as they were.
C11_Sam3EraseNoOp ==
    /\ []((op = "erase" /\ flash[f].erase = "sam3_flash_erase")
            => /\ pc = "returned"
               /\ ret = 0
               /\ hw = <<>>
               /\ cmd_results = <<>>
               /\ cpc = "none")
    /\ [][(op' = "erase" /\ flash[f'].erase = "sam3_flash_erase")
            => UNCHANGED <<mem, targetVars>>]_vars

C11_Witness ==
    /\ op = "erase"
    /\ flash[f].erase = "sam3_flash_erase"
    /\ addr = flash[f].start + SAM3_PAGE_SIZE
    /\ len = MaxBlocks * SAM3_PAGE_SIZE
    /\ pc = "returned"
    /\ ret = 0
    /\ hw = <<>>

\* C12: a write call makes one bulk memory write of the buffer to the
\* destination, then exactly one sequencer call, whose command word carries
\* the region's write opcode (erase-and-write page on SAM3, write page on
\* SAM4 and SAMx7) and the page index (destination - region start) /
\* buf_size; the bulk write is the first access of the call and no second
\* command is written before the call returns.
C12_OneWriteCommand ==
    op = "write" =>
        /\ Len(hw) >= 1
        /\ hw[1] = [k |-> "mem_write", a |-> addr, v |-> len]
        /\ Cardinality(Issued(hw)) <= 1
        /\ Len(cmd_results) <= 1
        /\ cpc = "issue" => hw = <<hw[1]>>
        /\ (cpc # "issue" \/ pc = "returned") =>
              /\ Len(hw) = 2
              /\ hw[2].k = "write32"
              /\ hw[2].a = flash[f].eefc_base + 4
              /\ hw[2].v = 90 * 2^24
                            + ((addr - flash[f].start) \div flash[f].buf_size) * 2^8
                            + (IF flash[f].blocksize = 256 THEN 3 ELSE 1)
        /\ pc = "returned" => Len(cmd_results) = 1

C12_Witness ==
    /\ op = "write"
    /\ pc = "returned"
    /\ flash[f].blocksize = 4096
    /\ addr = flash[f].start + flash[f].length - 512
    /\ addr > flash[f].start + 512
    /\ Len(hw) = 2
    /\ ret = 0

\* C13: gpnvm_set called with an argument count other than 3 (the command
\* name and two arguments) prints the usage message, returns false and
\* touches no hardware: no command-register write, no status-register read
\* and no result-register read; with a count of 3 it issues a command.
C13_UsageNoHardware ==
    op = "gpnvm_set" =>
        /\ argc # 3 =>
              /\ pc = "returned"
              /\ bret = FALSE
              /\ console = <<[msg |-> "usage", v |-> 0]>>
              /\ hw = <<>>
              /\ cmd_results = <<>>
              /\ cpc = "none"
              /\ sr = 0
        /\ argc = 3 =>
              /\ (cpc # "issue" \/ pc = "returned") => Issued(hw) # {}
              /\ \A i \in 1 .. Len(console) : console[i].msg # "usage"

C13_Witness ==
    /\ op = "gpnvm_set"
    /\ argc = 4
    /\ pc = "returned"
    /\ bret = FALSE
    /\ hw = <<>>
    /\ Len(console) = 1

\* C14: a recognized device whose flash-size code decodes to zero gets no
\* flash region: a target whose decoded flash size is zero has an empty
\* flash-region list, and no registered flash region has length zero.
C14_ZeroSizeNoRegion ==
    /\ flash_size = 0 => flash = <<>>
    /\ \A i \in 1 .. Len(flash) : flash[i].length > 0

Last(q) == q[Len(q)]

\* C15: a transport failure ends the sequencer call that observes it with
\* -1 and reaches no further: no step of an erase, write or monitor call,
\* failed or not, changes the target's regions, command table, label or
\* memory; observing the error clears it, so nothing is pending when the
\* failed call has returned; a sequencer call returns -1 only when an error
\* was pending at its own query, and a query with no error pending lets the
\* call poll on.
C15_TransportFailureScope ==
    /\ [][op' # "none" => UNCHANGED <<mem, targetVars>>]_vars
    /\ [][(cpc = "check" /\ link_error)
            => (cpc' = "done" /\ cmd_result' = -1 /\ ~link_error')]_vars
    /\ [][(cpc = "check" /\ ~link_error)
            => (cpc' = "poll" /\ cmd_results' = cmd_results)]_vars
    /\ [][(cpc # "done" /\ cpc' = "done" /\ cmd_result' = -1)
            => (cpc = "check" /\ link_error)]_vars
    /\ []((FlashCall /\ pc = "returned" /\ cmd_results # <<>>
            /\ Last(cmd_results) = -1) => (ret = -1 /\ ~link_error))
    /\ []((op = "write" /\ last.lost /\ pc = "returned")
            => /\ flash[f].erase = "sam4_flash_erase"
               /\ ret = (IF Last(cmd_results) = 0 THEN 0 ELSE -1))

C15_Witness ==
    /\ op = "write"
    /\ pc = "returned"
    /\ last.op = "erase"
    /\ last.lost
    /\ ~last.ok
    /\ cmd_results = <<0>>
    /\ ret = 0
    /\ Len(flash) = 2

\* the identification register the last probe decoded, its 4-bit flash-size
\* code and SRAM-size code, and the documented flash sizes in KiB
ProbedCidr ==
    IF last_probe = "sam3x_probe"
       /\ <<ArchOf(mem[SAM3X_CHIPID_CIDR]), EprocOf(mem[SAM3X_CHIPID_CIDR])>>
             \notin Sam3XTable
    THEN mem[SAM34NSU_CHIPID_CIDR]
    ELSE mem[SAM3X_CHIPID_CIDR]

NvpsizOf(c) == (c[2] \div 256) % 16
SramsizOf(c) == c[1] % 16

DocumentedKBytes ==
    [c \in 0 .. 15 |->
        CASE c = 1 -> 8
          [] c = 2 -> 16
          [] c = 3 -> 32
          [] c = 5 -> 64
          [] c = 7 -> 128
          [] c = 9 -> 256
          [] c = 10 -> 512
          [] c = 12 -> 1024
          [] c = 14 -> 2048
          [] OTHER -> 0]

\* C16: the flash size a probe decodes is the documented byte count of the
\* register's 4-bit size code (8K, 16K, 32K, 64K, 128K, 256K, 512K, 1024K,
\* 2048K for codes 1, 2, 3, 5, 7, 9, 10, 12, 14) and 0 for the seven other
\* codes, whatever the architecture, processor, SRAM-size and extension
\* bits of the register are.
C16_FlashSizeTable ==
    (nprobes >= 1 /\ Recognized(last_probe))
        => flash_size = DocumentedKBytes[NvpsizOf(ProbedCidr)] * 1024

C16_Witness ==
    /\ nprobes = 1
    /\ last_probe = "samx7x_probe"
    /\ Recognized(last_probe)
    /\ NvpsizOf(ProbedCidr) = 14
    /\ SramsizOf(ProbedCidr) = 13
    /\ ProbedCidr[1] >= 32768
    /\ flash_size = 2097152

VersionOf(c) == c[2] % 32
PinsOf(e) == e[2] % 4

\* the extended identification word samx7x_probe hands to the decoder
ProbedExid ==
    IF mem[SAM3X_CHIPID_CIDR][1] >= 32768 THEN mem[SAMX_CHIPID_EXID] ELSE Word0

\* C17: the descriptor samx7x_probe builds its label from carries product
\* code and id E/70, S/70, V/71, V/70 for the four architecture tags,
\* revision A for version 0 of the chip-identification register, B for
\* version 1 and '_' otherwise, pins Q, N, J for pin codes 2, 1, 0 of the
\* extended identification and 0 otherwise, and density 21, 20, 19 for
\* 2048K, 1024K, 512K of flash and 0 for any other size.
C17_DescriptorFields ==
    (probe_result /\ last_probe = "samx7x_probe") =>
        LET archc == ArchOf(ProbedCidr)
            kb == DocumentedKBytes[NvpsizOf(ProbedCidr)]
        IN  target_storage =
              <<"SAM",
                CASE archc = 16 -> 69 [] archc = 17 -> 83 [] OTHER -> 86,
                IF archc = 18 THEN 71 ELSE 70,
                CASE PinsOf(ProbedExid) = 2 -> 81
                  [] PinsOf(ProbedExid) = 1 -> 78
                  [] PinsOf(ProbedExid) = 0 -> 74
                  [] OTHER -> 0,
                CASE kb = 2048 -> 21 [] kb = 1024 -> 20 [] kb = 512 -> 19
                  [] OTHER -> 0,
                CASE VersionOf(ProbedCidr) = 0 -> 65
                  [] VersionOf(ProbedCidr) = 1 -> 66
                  [] OTHER -> 95>>

\* the documented RAM sizes in KiB of the two SRAM-size codes the decoder
\* knows
DocumentedRamKBytes(c) == CASE c = 13 -> 256 [] c = 2 -> 384 [] OTHER -> 0

\* C18: a probe that succeeds registers exactly one RAM region; its length
\* is the RAM size decoded from the SRAM-size code of the identification
\* register and its base is the family's fixed RAM base.
C18_RamFromDescriptor ==
    (probe_result /\ nprobes = 1) =>
        /\ Len(ram) = 1
        /\ ram[1].length = DocumentedRamKBytes(SramsizOf(ProbedCidr)) * 1024
        /\ ram[1].start =
              (IF last_probe = "samx7x_probe" THEN 8256 ELSE 8192) * 65536

Overlap(r1, r2) ==
    /\ r1.start < r2.start + r2.length
    /\ r2.start < r1.start + r1.length

\* C19: every flash region a probe registers has a length that is a whole
\* multiple of its erase blocksize, for every recognized device and size
\* code and for each half of a two-bank device, and no two flash regions
\* registered by a probe overlap.
C19_BlockMultipleNoOverlap ==
    /\ \A i \in 1 .. Len(flash) :
          /\ flash[i].blocksize > 0
          /\ flash[i].length % flash[i].blocksize = 0
    /\ nprobes = 1 =>
          \A i \in 1 .. Len(flash) : \A j \in 1 .. Len(flash) :
              i # j => ~Overlap(flash[i], flash[j])

C19_Witness ==
    /\ nprobes = 1
    /\ last_probe = "sam3x_probe"
    /\ Len(flash) = 2
    /\ flash[1].blocksize = 4096
    /\ flash[1].length = 8 * 65536
    /\ flash[2].start = flash[1].start + flash[1].length
    /\ flash[2].length = flash[1].length

Ceil(n, b) == (n + b - 1) \div b

WithTag(page) == IF page % 2 = 0 THEN page + 1 ELSE page

\* C20: an erase on a region with page erase (SAM4S, SAMx7) issues no
\* command for length 0; otherwise its k-th command (k = 0, 1, ...) is a
\* page erase with argument (start_page + 8k) | 1, where start_page =
\* (address - region start) / 512; as long as no command fails the
\* remaining length is the length passed less k blocks, never below 0, it
\* shrinks at every completed command, and the call returns 0 after exactly
\* ceil(length / blocksize) commands.
C20_EraseCommands ==
    /\ []((op = "erase" /\ flash[f].erase = "sam4_flash_erase") =>
            LET bs == flash[f].blocksize
                start_page == (addr - flash[f].start) \div 512
                done == IF pc = "returned" THEN Len(hw) ELSE Len(hw) - 1
            IN  /\ \A k \in 1 .. Len(hw) :
                      /\ hw[k].k = "write32"
                      /\ hw[k].a = flash[f].eefc_base + 4
                      /\ hw[k].v = 90 * 2^24 + 7
                                    + WithTag(start_page + 8 * (k - 1)) * 2^8
                /\ len_in = 0 => (pc = "returned" /\ ret = 0 /\ hw = <<>>)
                /\ Len(hw) <= Ceil(len_in, bs)
                /\ (Clean(cmd_results) /\ cpc \notin {"issue", "done"}) =>
                      len = (IF len_in > bs * done THEN len_in - bs * done ELSE 0)
                /\ (pc = "returned" /\ Clean(cmd_results)) =>
                      (ret = 0 /\ len = 0 /\ Len(hw) = Ceil(len_in, bs)))
    /\ [][(op = "erase" /\ pc = "erase_cmd" /\ cpc = "done" /\ cmd_result = 0)
            => (len' < len /\ chunk' = chunk + 8)]_vars

C20_Witness ==
    /\ op = "erase"
    /\ flash[f].erase = "sam4_flash_erase"
    /\ pc = "returned"
    /\ ret = 0
    /\ len_in = 4097
    /\ addr = flash[f].start + 512
    /\ Len(hw) = 2
    /\ hw[2].v = 90 * 2^24 + 7 + 9 * 2^8

\* the architecture code of the attached device and the base address of the
\* first flash controller of its family
DeviceArch ==
    IF mem[SAM3X_CHIPID_CIDR] # Word0 THEN ArchOf(mem[SAM3X_CHIPID_CIDR])
    ELSE ArchOf(mem[SAM34NSU_CHIPID_CIDR])

FamilyBase ==
    16384 * 65536 + 14 * 65536
        + (CASE DeviceArch \in SamX7Table -> 3072
             [] DeviceArch \in {128, 129} -> 2048
             [] OTHER -> 2560)

\* C21: gpnvm_set with two arguments writes exactly one set or clear
\* command, set-GPNVM (0x0B) for a non-zero value and clear-GPNVM (0x0C)
\* for zero, with the low 16 bits of the bit number as argument; only when
\* that sequencer call has returned does it write the read-GPNVM command
\* (0x0D) with argument 0, and only when that one has returned does it read
\* the result register, once; all three accesses go to the controller base
\* of the probed family.
C21_SetThenGet ==
    (op = "gpnvm_set" /\ argc = 3) =>
        /\ base = FamilyBase
        /\ Len(hw) <= 3
        /\ Len(hw) >= 1 =>
              hw[1] = [k |-> "write32", a |-> FamilyBase + 4,
                       v |-> 90 * 2^24 + (argv[1] % 65536) * 2^8
                             + (IF argv[2] = 0 THEN 12 ELSE 11)]
        /\ Len(hw) >= 2 =>
              /\ hw[2] = [k |-> "write32", a |-> FamilyBase + 4,
                          v |-> 90 * 2^24 + 13]
              /\ Len(cmd_results) >= 1
        /\ Len(hw) = 3 =>
              /\ hw[3].k = "read32"
              /\ hw[3].a = FamilyBase + 12
              /\ Len(cmd_results) = 2
              /\ pc = "returned"
        /\ pc = "set_cmd" => (Len(hw) = (IF cpc = "issue" THEN 0 ELSE 1)
                               /\ Len(cmd_results) = (IF cpc = "done" THEN 1 ELSE 0))
        /\ pc = "get_cmd" => Len(hw) = (IF cpc = "issue" THEN 1 ELSE 2)
        /\ pc = "returned" => (Len(hw) = 3 /\ Len(console) = 1)

C21_Witness ==
    /\ op = "gpnvm_set"
    /\ argc = 3
    /\ argv = <<7, 2>>
    /\ pc = "returned"
    /\ DeviceArch = 128
    /\ Len(hw) = 3
    /\ hw[1].v = 90 * 2^24 + 7 * 2^8 + 11
    /\ hw[3].v = 5

\* C22: a target on which every probe so far returned false, for whatever
\* reason, has no flash region, no RAM region and no command table.
C22_FailedProbeNoState ==
    ~probe_result => (flash = <<>> /\ ram = <<>> /\ commands = <<>>)

\* the page at the call's address, taken as not erased before the calls the
\* state remembers: before a write it is erased if the erase just before it
\* completed a page-erase command on it; after an erase it is what the
\* first completed command of the erase made of it
PageBeforeWrite == IF last.op = "erase" /\ last.erased THEN "erased" ELSE "dirty"

PageAfterErase ==
    IF cmd_results # <<>> /\ cmd_results[1] = 0
    THEN CommandEffect(hw[1].v % 256, "dirty")
    ELSE "dirty"

\* C23: every registered region pairs the no-op erase with the
\* erase-and-write-page opcode (0x03) and the page-erase loop with the
\* write-page opcode (0x01); so a successful erase of a non-zero length
\* followed by a successful write of the same page leaves the page
\* programmed from the erased state on every region, a successful erase of
\* a non-zero length on a page-erase region leaves the page erased, and an
\* erase alone on a no-op-erase region leaves the page not erased.
C23_ErasePairing ==
    /\ \A i \in 1 .. Len(flash) :
          /\ flash[i].write = "sam3x_flash_write"
          /\ \/ flash[i].erase = "sam3_flash_erase" /\ flash[i].write_cmd = 3
             \/ flash[i].erase = "sam4_flash_erase" /\ flash[i].write_cmd = 1
    /\ (op = "write" /\ pc = "returned" /\ ret = 0
          /\ last.op = "erase" /\ last.ok /\ last.some)
            => CommandEffect(hw[2].v % 256, PageBeforeWrite) = "programmed"
    /\ (op = "erase" /\ pc = "returned" /\ ret = 0 /\ len_in > 0)
            => PageAfterErase =
                 (IF flash[f].erase = "sam3_flash_erase" THEN "dirty" ELSE "erased")

C23_Witness ==
    /\ op = "write"
    /\ pc = "returned"
    /\ ret = 0
    /\ last.op = "erase"
    /\ last.ok
    /\ last.some
    /\ ~last.erased
    /\ flash[f].erase = "sam3_flash_erase"
    /\ hw[2].v % 256 = 3

\* C24: in every erase and write call, on the largest region of every
\* family as on the others, the argument that reaches the sequencer is the
\* page index the call computed, (dest - start) / buf_size for a write and
\* the running page index with bit 0 set for an erase: it is not negative
\* as a signed 16-bit value, the conversion to the 16-bit parameter drops
\* nothing, and the command word carries it whole; every page index of
\* every registered region stays below 2^15.
C24_PageIndexFits ==
    /\ \A i \in 1 .. Len(flash) :
          flash[i].length \div flash[i].buf_size + 8 < 32768
    /\ (FlashCall /\ cpc # "none") =>
          /\ arg_in = (IF op = "write" THEN chunk ELSE WithTag(chunk))
          /\ arg = arg_in
          /\ arg >= 0
          /\ arg < 32768
          /\ op = "write" => chunk = (addr - flash[f].start) \div flash[f].buf_size
          /\ cpc # "issue" => (hw[Len(hw)].v \div 256) % 65536 = arg_in

C24_Witness ==
    /\ op = "write"
    /\ cpc = "done"
    /\ flash[f].length = 32 * 65536
    /\ flash[f].buf_size = 256
    /\ addr = flash[f].start + flash[f].length - 256
    /\ arg = 8191
    /\ (hw[2].v \div 256) % 65536 = 8191

====
